---------------------------- MODULE Spec2Model ----------------------------
(***************************************************************************)
(* GreenCloud-FileServer: the LRU memory cache (cache.go, first file) and  *)
(* the file handler with its singleflight group and hedged read            *)
(* (cache.go, second file; reader.go).                                     *)
(*                                                                         *)
(* Sizes are counted in blocks: one element of a payload sequence is one   *)
(* block of data, and len(data) is the length of the sequence.             *)
(***************************************************************************)
EXTENDS Integers, Sequences, FiniteSets, TLC

\* ------------------------------------------------------------------ bounds
MaxLen == 3
MaxBudget == 2
MaxElapsed == 2

Keys == {"A", "B", "C", "D"}
Bytes == {0, 1}
\* payloads: n blocks of the same content b, so that two payloads of one size differ
Payloads == {[i \in 1..n |-> b] : n \in 0..MaxLen, b \in Bytes}
\* -cacheSizeBytes is an int64 flag that is never validated: it may be negative
Budgets == (0 - 1)..MaxBudget

VARIABLES
    maxBytes,     \* MemoryCache.maxBytes
    usedBytes,    \* MemoryCache.usedBytes
    ll,           \* MemoryCache.ll: element ids, front first
    cache,        \* MemoryCache.cache: key -> element id
    elems,        \* the heap of list elements: element id -> CacheItem
    lastOp,       \* history: the cache operation completed last
    recency,      \* history: retained keys by their last Get-hit or stored Set, newest first
    scen,         \* history: progress through the A, B, C, Get(A), D scenario
    pc,           \* per request: where its ServeHTTP goroutine stands
    filePath,     \* per request: filePath, the key of the cache and of the group
    ctxDone,      \* per request: r.Context() is cancelled
    buf,          \* per request: doRead's buf of the attempt under way
    off,          \* per request: the offset of the file the attempt has open
    reader,       \* per request: the HedgingReader of the guarded attempt
    res,          \* per request: what Get or sfGroup.Do returned to it
    role,         \* history, per request: how it came by res
    events,       \* history, per request: the opens, attempt ends and delay of its fetch
    sfm,          \* sfGroup: key -> the call in flight (its leader and its waiters)
    mu,           \* MemoryCache.mu: the request that holds it locked, 0 when it is free
    gmu           \* sfGroup's mutex: the request that holds it locked, 0 when it is free

cacheVars == <<maxBytes, usedBytes, ll, cache, elems>>
histVars == <<lastOp, recency, scen>>
reqVars == <<pc, filePath, ctxDone, buf, off, reader, res, role, events>>
serveVars == <<pc, filePath, ctxDone, buf, off, reader, res, role, events, sfm, mu, gmu>>
lockVars == <<mu, gmu>>

\* ------------------------------------------------- maps and container/list
MapPut(m, k, v) == [x \in (DOMAIN m) \cup {k} |-> IF x = k THEN v ELSE m[x]]
MapDelete(m, k) == [x \in (DOMAIN m) \ {k} |-> m[x]]
Range(f) == {f[x] : x \in DOMAIN f}

InList(l, e) == \E i \in 1..Len(l) : l[i] = e
Remove(l, e) == SelectSeq(l, LAMBDA x : x # e)
\* the new element put at the back
PushBack(l, e) == l \o <<e>>
PushFront(l, e) == <<e>> \o l
\* list.MoveToFront does nothing for an element that is not in the list
MoveToFront(l, e) == IF InList(l, e) THEN <<e>> \o Remove(l, e) ELSE l
\* the front taken for the back
BackIsFront(l) == l[1]
Back(l) == l[Len(l)]

\* ------------------------------------------------------------ MemoryCache
\* The cache as one value, for the operators below.
MC == [maxBytes |-> maxBytes, usedBytes |-> usedBytes, ll |-> ll,
       cache |-> cache, elems |-> elems]

NewMemoryCache(b) == [maxBytes |-> b, usedBytes |-> 0, ll |-> <<>>,
                      cache |-> <<>>, elems |-> <<>>]

\* A fresh element: an id no reachable element carries.
NewElem(c, key) ==
    LET n == CHOOSE i \in 0..Cardinality(DOMAIN c.elems) :
                 /\ <<key, i>> \notin DOMAIN c.elems
                 /\ \A j \in 0..(i - 1) : <<key, j>> \in DOMAIN c.elems
    IN <<key, n>>

\* Garbage collection: elements no longer reachable from the list or the map.
Collect(c) ==
    LET live == {c.ll[i] : i \in 1..Len(c.ll)} \cup Range(c.cache)
    IN [c EXCEPT !.elems = [e \in live |-> c.elems[e]]]

\* an if for the for: one removal at most
evictOnce(c) ==
    IF c.usedBytes > c.maxBytes /\ Len(c.ll) > 0
    THEN LET elem == Back(c.ll)
             item == c.elems[elem]
         IN [c EXCEPT !.ll = Remove(c.ll, elem),
                      !.cache = MapDelete(c.cache, item.Key),
                      !.usedBytes = c.usedBytes - Len(item.Data)]
    ELSE c

\* the delete from the map forgotten
RECURSIVE evictKeepIndex(_)
evictKeepIndex(c) ==
    IF c.usedBytes > c.maxBytes /\ Len(c.ll) > 0
    THEN LET elem == Back(c.ll)
             item == c.elems[elem]
         IN evictKeepIndex([c EXCEPT !.ll = Remove(c.ll, elem),
                                     !.usedBytes = c.usedBytes - Len(item.Data)])
    ELSE c

RECURSIVE evict(_)
evict(c) ==
    IF c.usedBytes > c.maxBytes /\ Len(c.ll) > 0
    THEN LET elem == Back(c.ll)
             item == c.elems[elem]
         IN evict([c EXCEPT !.ll = Remove(c.ll, elem),
                            !.cache = MapDelete(c.cache, item.Key),
                            !.usedBytes = c.usedBytes - Len(item.Data)])
    ELSE c

\* the MoveToFront forgotten
GetNoTouch(c, key) ==
    IF key \in DOMAIN c.cache
    THEN [c |-> c, data |-> c.elems[c.cache[key]].Data, ok |-> TRUE]
    ELSE [c |-> c, data |-> <<>>, ok |-> FALSE]

Get(c, key) ==
    IF key \in DOMAIN c.cache
    THEN LET elem == c.cache[key]
         IN [c |-> [c EXCEPT !.ll = MoveToFront(c.ll, elem)],
             data |-> c.elems[elem].Data, ok |-> TRUE]
    ELSE [c |-> c, data |-> <<>>, ok |-> FALSE]

\* the payload kept: oldItem.Data = data forgotten
UpdateItemKeepData(c, elem, data) ==
    LET oldItem == c.elems[elem] IN
    [c EXCEPT !.ll = MoveToFront(c.ll, elem)]

\* Set, the key found in the map: move to front, replace the payload, re-account.
UpdateItem(c, elem, data) ==
    LET oldItem == c.elems[elem] IN
    [c EXCEPT !.ll = MoveToFront(c.ll, elem),
              !.usedBytes = c.usedBytes - Len(oldItem.Data) + Len(data),
              !.elems = MapPut(c.elems, elem, [Key |-> oldItem.Key, Data |-> data])]

\* Set, a new key: a new element at the front, indexed under the key.
AddItem(c, key, data) ==
    LET elem == NewElem(c, key) IN
    [c EXCEPT !.elems = MapPut(c.elems, elem, [Key |-> key, Data |-> data]),
              !.ll = PushFront(c.ll, elem),
              !.cache = MapPut(c.cache, key, elem),
              !.usedBytes = c.usedBytes + Len(data)]

\* the size check forgotten
SetUnchecked(c, key, data) ==
    IF key \in DOMAIN c.cache
    THEN Collect(evict(UpdateItem(c, c.cache[key], data)))
    ELSE Collect(evict(AddItem(c, key, data)))

Set(c, key, data) ==
    LET dataSize == Len(data) IN
    IF dataSize > c.maxBytes
    THEN c
    ELSE IF key \in DOMAIN c.cache
    THEN Collect(evict(UpdateItem(c, c.cache[key], data)))
    ELSE Collect(evict(AddItem(c, key, data)))

Install(c) ==
    /\ maxBytes' = c.maxBytes
    /\ usedBytes' = c.usedBytes
    /\ ll' = c.ll
    /\ cache' = c.cache
    /\ elems' = c.elems

\* ---------------------------------------------------------------- history
NoOp == [op |-> "None", key |-> "", data |-> <<>>]

KeysOf(c) == [i \in 1..Len(c.ll) |-> c.elems[c.ll[i]].Key]
Retained(c) == DOMAIN c.cache
DataOf(c, k) == c.elems[c.cache[k]].Data

Touch(order, k) == <<k>> \o SelectSeq(order, LAMBDA x : x # k)
Restrict(order, S) == SelectSeq(order, LAMBDA x : x \in S)
PosIn(order, k) == CHOOSE i \in 1..Len(order) : order[i] = k

\* The sizes s of which the budget holds exactly two items.
ItemSizes == {s \in 1..MaxLen : 2 * s <= maxBytes /\ maxBytes < 3 * s}
ScenOps == <<[op |-> "Set", key |-> "A"], [op |-> "Set", key |-> "B"],
             [op |-> "Set", key |-> "C"], [op |-> "Get", key |-> "A"],
             [op |-> "Set", key |-> "D"]>>
ScenDead == [n |-> 0 - 1, size |-> 0]
ScenNext(op, key, data) ==
    IF /\ scen.n >= 0 /\ scen.n < Len(ScenOps)
       /\ ScenOps[scen.n + 1].op = op /\ ScenOps[scen.n + 1].key = key
       /\ op = "Set" => /\ Len(data) \in ItemSizes
                        /\ scen.n > 0 => Len(data) = scen.size
    THEN [n |-> scen.n + 1, size |-> IF op = "Set" THEN Len(data) ELSE scen.size]
    ELSE ScenDead

\* What the history records of one completed cache operation that took the
\* cache to d: the call, and the order of last use (touched: the call was a
\* use of its key).
Observe(op, key, data, touched, d) ==
    /\ lastOp' = [op |-> op, key |-> key, data |-> data]
    /\ recency' = Restrict(IF touched THEN Touch(recency, key) ELSE recency,
                           Retained(d))
    /\ scen' = ScenNext(op, key, data)

\* ---------------------------------------------------------------- actions
CallGet ==
    \E k \in Keys :
        LET r == Get(MC, k) IN
        /\ Install(r.c)
        /\ Observe("Get", k, <<>>, r.ok, r.c)
        /\ UNCHANGED serveVars

CallSet ==
    \E k \in Keys, d \in Payloads :
        LET c == Set(MC, k, d) IN
        /\ Install(c)
        /\ Observe("Set", k, d, Len(d) <= maxBytes, c)
        /\ UNCHANGED serveVars

\* ------------------------------------------------------------ FileHandler
Reqs == {1, 2, 3}

\* The served directory: A is two blocks, B is one block, C does not exist.
Files == [A |-> <<1, 1>>, B |-> <<0>>]
ServeKeys == {"A", "B", "C"}
Exists(k) == k \in DOMAIN Files

\* -checkTime, in seconds, and -minSpeedMbps: the defaults
CheckTime == 1
MinSpeed == 5
\* doRead's chunk, in blocks of 1024*1024 bytes
ChunkBlocks == 1

Nil == ""
NoRes == [val |-> <<>>, err |-> Nil]
NoReader == [bytesRead |-> 0, elapsed |-> 0]

\* os.File.Read at offset at of a file: a chunk, the end of the file, or a
\* failure of the storage.
FileRead(data, at, fail) ==
    IF fail THEN [n |-> 0, err |-> "IOError"]
    ELSE IF at >= Len(data) THEN [n |-> 0, err |-> "EOF"]
    ELSE [n |-> IF Len(data) - at < ChunkBlocks THEN Len(data) - at ELSE ChunkBlocks,
          err |-> Nil]

\* every rate taken for too low
AlwaysSlow(bytesRead, elapsed) == TRUE
\* speedMbps < r.minSpeed, with bytesRead in blocks of 1024*1024 bytes and
\* elapsed in seconds
TooSlow(bytesRead, elapsed) == bytesRead * 8 < MinSpeed * elapsed

\* HedgingReader.Read on reader rd: cancelled says r.ctx.Err() # nil, fr is what
\* r.file.Read returns if it is called, elapsed is time.Since(r.startTime) after it.
HedgingRead(rd, cancelled, fr, elapsed) ==
    IF cancelled
    THEN [rd |-> rd, n |-> 0, err |-> "Canceled"]
    ELSE LET bytesRead == rd.bytesRead + fr.n IN
         [rd |-> [bytesRead |-> bytesRead, elapsed |-> elapsed],
          n |-> fr.n,
          err |-> IF elapsed >= CheckTime /\ TooSlow(bytesRead, elapsed)
                  THEN "TooSlow" ELSE fr.err]

\* every error of a Read taken for the end of the data
AnyReadErr(err) == TRUE
\* doRead: readErr == io.EOF
IsEOF(err) == err = "EOF"

\* One turn of doRead's loop on request r reading data: the context check, the
\* Read (through the HedgingReader when useSpeedLimit), the append to buf. more
\* says the loop goes on; else val, err is what doRead returns. read says the
\* Read was called, and rerr is the error it returned.
DoReadTurn(r, data, useSpeedLimit, fail, elapsed) ==
    IF ctxDone[r]
    THEN [more |-> FALSE, buf |-> buf[r], off |-> off[r], rd |-> reader[r],
          val |-> <<>>, err |-> "Canceled", read |-> FALSE, rerr |-> Nil]
    ELSE LET fr == FileRead(data, off[r], fail)
             rr == IF useSpeedLimit
                   THEN HedgingRead(reader[r], ctxDone[r], fr, elapsed)
                   ELSE [rd |-> reader[r], n |-> fr.n, err |-> fr.err]
             b  == buf[r] \o SubSeq(data, off[r] + 1, off[r] + rr.n)
             o  == off[r] + fr.n
         IN IF rr.err = Nil
            THEN [more |-> TRUE, buf |-> b, off |-> o, rd |-> rr.rd,
                  val |-> <<>>, err |-> Nil, read |-> TRUE, rerr |-> rr.err]
            ELSE IF IsEOF(rr.err)
            THEN [more |-> FALSE, buf |-> b, off |-> o, rd |-> rr.rd,
                  val |-> b, err |-> Nil, read |-> TRUE, rerr |-> rr.err]
            ELSE [more |-> FALSE, buf |-> b, off |-> o, rd |-> rr.rd,
                  val |-> <<>>, err |-> rr.err, read |-> TRUE, rerr |-> rr.err]

\* ServeHTTP up to the cache lookup: a hit is served and the handler returns, a
\* miss goes on to sfGroup.Do. Requests are interchangeable: a new one takes the
\* lowest idle goroutine.
StartRequest(r) ==
    /\ pc[r] = "idle"
    /\ \A q \in Reqs : q < r => pc[q] # "idle"
    /\ \E k \in ServeKeys :
         LET g == Get(MC, k) IN
         /\ Install(g.c)
         /\ IF g.ok
            THEN UNCHANGED <<pc, filePath, role>>
            ELSE /\ pc' = [pc EXCEPT ![r] = "do"]
                 /\ filePath' = [filePath EXCEPT ![r] = k]
                 /\ role' = [role EXCEPT ![r] = "miss"]
    /\ UNCHANGED <<histVars, ctxDone, buf, off, reader, res, sfm>>

\* the client goes away while its request is being served. Only doRead reads
\* the context, and only that of the request that runs fn: a cancellation
\* before fn starts is a cancellation at its start, and one of a waiter or
\* after sfGroup.Do has returned is read by nobody.
Cancel(r) ==
    /\ pc[r] \in {"read1", "sleep", "read2"}
    /\ ~ctxDone[r]
    /\ ctxDone' = [ctxDone EXCEPT ![r] = TRUE]
    /\ UNCHANGED <<cacheVars, histVars, pc, filePath, buf, off, reader, res, role, sfm>>

\* the coalescing lost: every request runs its own fetch
NeverJoins(r) == FALSE

\* sfGroup.Do: a call in flight for the key is joined
JoinsCall(r) == filePath[r] \in DOMAIN sfm

\* errors.Is(err, ErrTooSlow) taken for false: the abort is an error like another
NeverTooSlow(err) == FALSE
\* errors.Is(err, ErrTooSlow) taken for true of every error
AnyError(err) == err # Nil

\* readHedged: errors.Is(err, ErrTooSlow)
IsTooSlow(err) == err = "TooSlow"

\* readHedged returns val, err, and doCall ends the call: the call leaves the
\* map and its result goes to the leader r and to every waiter, who return from
\* sfGroup.Do
Return(r, val, err) ==
    LET out == {r} \cup sfm[filePath[r]].waiters
    IN /\ pc' = [q \in Reqs |-> IF q \in out THEN "ret" ELSE pc[q]]
       /\ res' = [q \in Reqs |-> IF q \in out THEN [val |-> val, err |-> err] ELSE res[q]]
       /\ ctxDone' = [q \in Reqs |-> IF q \in out THEN FALSE ELSE ctxDone[q]]
       /\ buf' = [buf EXCEPT ![r] = <<>>]
       /\ off' = [off EXCEPT ![r] = 0]
       /\ reader' = [reader EXCEPT ![r] = NoReader]
       /\ sfm' = MapDelete(sfm, filePath[r])

\* sfGroup.Do(filePath, fn): wait for the call in flight, or register a call
\* and run fn, which is readHedged with the context of this request
EnterDo(r) ==
    /\ pc[r] = "do"
    /\ IF JoinsCall(r)
       THEN /\ sfm' = [sfm EXCEPT ![filePath[r]].waiters = @ \cup {r}]
            /\ pc' = [pc EXCEPT ![r] = "wait"]
            /\ role' = [role EXCEPT ![r] = "joined"]
       ELSE /\ sfm' = MapPut(sfm, filePath[r], [leader |-> r, waiters |-> {}])
            /\ pc' = [pc EXCEPT ![r] = "open1"]
            /\ role' = [role EXCEPT ![r] = "leader"]
    /\ UNCHANGED <<cacheVars, histVars, filePath, ctxDone, buf, off, reader, res>>

\* readHedged starts doRead(ctx, filePath, true): os.Open, NewHedgingReader
Open1(r) ==
    /\ pc[r] = "open1"
    /\ IF Exists(filePath[r])
       THEN /\ pc' = [pc EXCEPT ![r] = "read1"]
            /\ off' = [off EXCEPT ![r] = 0]
            /\ reader' = [reader EXCEPT ![r] = NoReader]
            /\ UNCHANGED <<ctxDone, buf, res, sfm>>
       ELSE Return(r, <<>>, "NotExist")
    /\ UNCHANGED <<cacheVars, histVars, filePath, role>>

\* the bytes of the attempt that failed handed on to the next
Carried(b) == b
\* doRead: return nil, readErr; its buf and its file end with the call
Dropped(b) == <<>>

\* a turn of the guarded attempt's loop: the storage fails in it or not, and
\* dt is the time that passes in it
Turn1(r, fail, dt) ==
    DoReadTurn(r, Files[filePath[r]], TRUE, fail, reader[r].elapsed + dt)
Read1Turn(r, fail, dt) ==
    /\ pc[r] = "read1"
    /\ LET t == Turn1(r, fail, dt) IN
         IF t.more
         THEN /\ buf' = [buf EXCEPT ![r] = t.buf]
              /\ off' = [off EXCEPT ![r] = t.off]
              /\ reader' = [reader EXCEPT ![r] = t.rd]
              /\ UNCHANGED <<pc, ctxDone, res, sfm>>
         ELSE IF t.err # Nil /\ IsTooSlow(t.err)
         THEN /\ pc' = [pc EXCEPT ![r] = "sleep"]
              /\ buf' = [buf EXCEPT ![r] = Dropped(t.buf)]
              /\ off' = [off EXCEPT ![r] = 0]
              /\ reader' = [reader EXCEPT ![r] = NoReader]
              /\ UNCHANGED <<ctxDone, res, sfm>>
         ELSE Return(r, t.val, t.err)
    /\ UNCHANGED <<cacheVars, histVars, filePath, role>>
Read1(r) ==
    \E fail \in BOOLEAN, dt \in 0..(MaxElapsed - reader[r].elapsed) :
        Read1Turn(r, fail, dt)

\* time.Sleep(h.hedgedDelay) is over; doRead(ctx, filePath, false): os.Open
Open2(r) ==
    /\ pc[r] = "sleep"
    /\ IF Exists(filePath[r])
       THEN /\ pc' = [pc EXCEPT ![r] = "read2"]
            /\ off' = [off EXCEPT ![r] = 0]
            /\ UNCHANGED <<ctxDone, buf, reader, res, sfm>>
       ELSE Return(r, <<>>, "NotExist")
    /\ UNCHANGED <<cacheVars, histVars, filePath, role>>

\* a turn of the second attempt's loop, read from the file itself
Turn2(r, fail) == DoReadTurn(r, Files[filePath[r]], FALSE, fail, 0)
Read2Turn(r, fail) ==
    /\ pc[r] = "read2"
    /\ LET t == Turn2(r, fail) IN
         IF t.more
         THEN /\ buf' = [buf EXCEPT ![r] = t.buf]
              /\ off' = [off EXCEPT ![r] = t.off]
              /\ UNCHANGED <<pc, ctxDone, reader, res, sfm>>
         ELSE Return(r, t.val, t.err)
    /\ UNCHANGED <<cacheVars, histVars, filePath, role>>
Read2(r) == \E fail \in BOOLEAN : Read2Turn(r, fail)

\* the error overlooked: whatever Do returned is cached and served
NeverFailed(rs) == FALSE
\* ServeHTTP: err != nil
Failed(rs) == rs.err # Nil

\* ServeHTTP after sfGroup.Do: the error answered, or the payload cached and
\* served; the handler returns
Respond(r) ==
    /\ pc[r] = "ret"
    /\ pc' = [pc EXCEPT ![r] = "idle"]
    /\ IF Failed(res[r])
       THEN UNCHANGED cacheVars
       ELSE Install(Set(MC, filePath[r], res[r].val))
    /\ filePath' = [filePath EXCEPT ![r] = ""]
    /\ res' = [res EXCEPT ![r] = NoRes]
    /\ role' = [role EXCEPT ![r] = "none"]
    /\ UNCHANGED <<histVars, ctxDone, buf, off, reader, sfm>>

vars == <<maxBytes, usedBytes, ll, cache, elems, lastOp, recency, scen,
          pc, filePath, ctxDone, buf, off, reader, res, role, events, sfm, mu, gmu>>

InitWith(B) ==
    /\ \E b \in B :
        LET c == NewMemoryCache(b) IN
        /\ maxBytes = c.maxBytes
        /\ usedBytes = c.usedBytes
        /\ ll = c.ll
        /\ cache = c.cache
        /\ elems = c.elems
    /\ lastOp = NoOp
    /\ recency = <<>>
    /\ scen = [n |-> 0, size |-> 0]
    /\ pc = [r \in Reqs |-> "idle"]
    /\ filePath = [r \in Reqs |-> ""]
    /\ ctxDone = [r \in Reqs |-> FALSE]
    /\ buf = [r \in Reqs |-> <<>>]
    /\ off = [r \in Reqs |-> 0]
    /\ reader = [r \in Reqs |-> NoReader]
    /\ res = [r \in Reqs |-> NoRes]
    /\ role = [r \in Reqs |-> "none"]
    /\ events = [r \in Reqs |-> <<>>]
    /\ sfm = <<>>
    /\ mu = 0
    /\ gmu = 0

\* the cache alone, under arbitrary callers
Init == InitWith(Budgets)

NextCache == CallGet \/ CallSet

SpecCache == Init /\ [][NextCache]_vars

\* the handler, under concurrent requests
NextServe ==
    \E r \in Reqs :
        \/ StartRequest(r) /\ UNCHANGED <<events, mu, gmu>>
        \/ Cancel(r) /\ UNCHANGED <<events, mu, gmu>>
        \/ EnterDo(r) /\ UNCHANGED <<events, mu, gmu>>
        \/ Open1(r) /\ UNCHANGED <<events, mu, gmu>>
        \/ Read1(r) /\ UNCHANGED <<events, mu, gmu>>
        \/ Open2(r) /\ UNCHANGED <<events, mu, gmu>>
        \/ Read2(r) /\ UNCHANGED <<events, mu, gmu>>
        \/ Respond(r) /\ UNCHANGED <<events, mu, gmu>>

\* a budget below 1 caches none of the files, as a budget of 1 caches none of A
InitServe == InitWith(1..MaxBudget)

SpecServe == InitServe /\ [][NextServe]_vars

\* ---------------------------------------------------- one fetch, observed
\* What the history records of a fetch: an os.Open of an attempt, a Read of the
\* guarded attempt through the HedgingReader (the time since the start and the
\* bytes read after it, the error it returned), the return of an attempt's
\* doRead, the hedge delay.
EvOpen(guarded) == <<"open", IF guarded THEN "guarded" ELSE "unguarded">>
EvRead(rd, err) == <<"read", err, rd.elapsed, rd.bytesRead>>
EvEnd(val, err) == <<"end", err, val>>
EvDelay == <<"delay", "hedgedDelay">>
Record(r, evs) == events' = [events EXCEPT ![r] = @ \o evs]
EvTurn(t, guarded) ==
    (IF t.read /\ guarded THEN <<EvRead(t.rd, t.rerr)>> ELSE <<>>)
        \o (IF t.more THEN <<>> ELSE <<EvEnd(t.val, t.err)>>)
EvOpened(r, evs) ==
    evs \o (IF Exists(filePath[r]) THEN <<>> ELSE <<EvEnd(<<>>, "NotExist")>>)

\* the requests observed: a leader and a request that may join it
FetchReqs == {1, 2}

NextFetch ==
    \E r \in FetchReqs :
        \/ StartRequest(r) /\ UNCHANGED <<events, mu, gmu>>
        \/ Cancel(r) /\ UNCHANGED <<events, mu, gmu>>
        \/ EnterDo(r) /\ UNCHANGED <<events, mu, gmu>>
        \/ Open1(r) /\ Record(r, EvOpened(r, <<EvOpen(TRUE)>>)) /\ UNCHANGED lockVars
        \/ \E fail \in BOOLEAN, dt \in 0..(MaxElapsed - reader[r].elapsed) :
             Read1Turn(r, fail, dt) /\ Record(r, EvTurn(Turn1(r, fail, dt), TRUE))
               /\ UNCHANGED lockVars
        \/ Open2(r) /\ Record(r, EvOpened(r, <<EvDelay, EvOpen(FALSE)>>))
             /\ UNCHANGED lockVars
        \/ \E fail \in BOOLEAN :
             Read2Turn(r, fail) /\ Record(r, EvTurn(Turn2(r, fail), FALSE))
               /\ UNCHANGED lockVars
        \/ Respond(r) /\ events' = [events EXCEPT ![r] = <<>>] /\ UNCHANGED lockVars

SpecFetch == InitServe /\ [][NextFetch]_vars

\* ------------------------------------------- the handler, lock by lock
\* ServeHTTP with each critical section as two steps, the Lock and the rest up
\* to the Unlock, and the fetch as one: whatever readHedged returns. c.mu is a
\* sync.RWMutex that is only ever locked for writing; the mutex of the group
\* is held by Do for the table of calls alone, before fn is called and after it
\* has returned.
LockReqs == {1, 2}

\* a lock that never keeps anybody out
AlwaysFree(m) == TRUE
\* sync.Mutex.Lock, RWMutex.Lock: the caller goes on when nobody holds the lock
CanLock(m) == m = 0

\* the deferred Unlock forgotten: the caller keeps the lock
StillLocked(r) == r
\* defer c.mu.Unlock(): the lock is free when Get or Set returns to caller r
Unlocked(r) == 0

\* what readHedged can return for a key
Outcomes(k) ==
    (IF Exists(k) THEN {[val |-> Files[k], err |-> Nil]}
                  ELSE {[val |-> <<>>, err |-> "NotExist"]})
        \cup {[val |-> <<>>, err |-> e] : e \in {"IOError", "Canceled"}}

\* ServeHTTP up to the call of h.cache.Get(filePath)
Arrive(r) ==
    /\ pc[r] = "idle"
    /\ \A q \in LockReqs : q < r => pc[q] # "idle"
    /\ \E k \in ServeKeys : filePath' = [filePath EXCEPT ![r] = k]
    /\ pc' = [pc EXCEPT ![r] = "get"]
    /\ UNCHANGED <<cacheVars, ctxDone, buf, off, reader, res, role, sfm, lockVars>>

\* Get: c.mu.Lock()
GetLock(r) ==
    /\ pc[r] = "get"
    /\ CanLock(mu)
    /\ mu' = r
    /\ pc' = [pc EXCEPT ![r] = "inGet"]
    /\ UNCHANGED <<cacheVars, filePath, ctxDone, buf, off, reader, res, role, sfm, gmu>>

\* Get under the lock, and the deferred c.mu.Unlock(); a hit is served
GetUnlock(r) ==
    /\ pc[r] = "inGet"
    /\ LET g == Get(MC, filePath[r]) IN
         /\ Install(g.c)
         /\ IF g.ok
            THEN /\ pc' = [pc EXCEPT ![r] = "idle"]
                 /\ filePath' = [filePath EXCEPT ![r] = ""]
            ELSE /\ pc' = [pc EXCEPT ![r] = "do"]
                 /\ UNCHANGED filePath
    /\ mu' = Unlocked(r)
    /\ UNCHANGED <<ctxDone, buf, off, reader, res, role, sfm, gmu>>

\* Do: g.mu.Lock()
DoLock(r) ==
    /\ pc[r] = "do"
    /\ CanLock(gmu)
    /\ gmu' = r
    /\ pc' = [pc EXCEPT ![r] = "inDo"]
    /\ UNCHANGED <<cacheVars, filePath, ctxDone, buf, off, reader, res, role, sfm, mu>>

\* Do under its mutex: the call in flight is joined, or a call is registered;
\* the mutex is unlocked before the wait and before fn
DoUnlock(r) ==
    /\ pc[r] = "inDo"
    /\ IF JoinsCall(r)
       THEN /\ sfm' = [sfm EXCEPT ![filePath[r]].waiters = @ \cup {r}]
            /\ pc' = [pc EXCEPT ![r] = "wait"]
            /\ role' = [role EXCEPT ![r] = "joined"]
            /\ gmu' = 0
       ELSE /\ sfm' = MapPut(sfm, filePath[r], [leader |-> r, waiters |-> {}])
            /\ pc' = [pc EXCEPT ![r] = "fn"]
            /\ role' = [role EXCEPT ![r] = "leader"]
            /\ gmu' = 0
    /\ UNCHANGED <<cacheVars, filePath, ctxDone, buf, off, reader, res, mu>>

\* fn: readHedged, from its first open to its return
Fn(r) ==
    /\ pc[r] = "fn"
    /\ \E out \in Outcomes(filePath[r]) : res' = [res EXCEPT ![r] = out]
    /\ pc' = [pc EXCEPT ![r] = "fnret"]
    /\ UNCHANGED <<cacheVars, filePath, ctxDone, buf, off, reader, role, sfm, lockVars>>

\* doCall after fn: g.mu.Lock()
DoneLock(r) ==
    /\ pc[r] = "fnret"
    /\ CanLock(gmu)
    /\ gmu' = r
    /\ pc' = [pc EXCEPT ![r] = "inDone"]
    /\ UNCHANGED <<cacheVars, filePath, ctxDone, buf, off, reader, res, role, sfm, mu>>

\* doCall under the mutex: the call leaves the table and its waiters go on;
\* g.mu.Unlock()
DoneUnlock(r) ==
    /\ pc[r] = "inDone"
    /\ Return(r, res[r].val, res[r].err)
    /\ gmu' = 0
    /\ UNCHANGED <<cacheVars, filePath, role, mu>>

\* ServeHTTP after Do, with an error: the answer
RespondError(r) ==
    /\ pc[r] = "ret"
    /\ Failed(res[r])
    /\ pc' = [pc EXCEPT ![r] = "idle"]
    /\ filePath' = [filePath EXCEPT ![r] = ""]
    /\ res' = [res EXCEPT ![r] = NoRes]
    /\ role' = [role EXCEPT ![r] = "none"]
    /\ UNCHANGED <<cacheVars, ctxDone, buf, off, reader, sfm, lockVars>>

\* ServeHTTP after Do, with a payload above the budget: h.cache.Set returns
\* before it locks; the payload is served
SetTooLarge(r) ==
    /\ pc[r] = "ret"
    /\ ~Failed(res[r])
    /\ Len(res[r].val) > maxBytes
    /\ pc' = [pc EXCEPT ![r] = "idle"]
    /\ filePath' = [filePath EXCEPT ![r] = ""]
    /\ res' = [res EXCEPT ![r] = NoRes]
    /\ role' = [role EXCEPT ![r] = "none"]
    /\ UNCHANGED <<cacheVars, ctxDone, buf, off, reader, sfm, lockVars>>

\* ServeHTTP after Do, with a payload within the budget: h.cache.Set, c.mu.Lock()
SetLock(r) ==
    /\ pc[r] = "ret"
    /\ ~Failed(res[r])
    /\ Len(res[r].val) <= maxBytes
    /\ CanLock(mu)
    /\ mu' = r
    /\ pc' = [pc EXCEPT ![r] = "inSet"]
    /\ UNCHANGED <<cacheVars, filePath, ctxDone, buf, off, reader, res, role, sfm, gmu>>

\* Set under the lock, and the deferred c.mu.Unlock(); the payload is served
SetUnlock(r) ==
    /\ pc[r] = "inSet"
    /\ Install(Set(MC, filePath[r], res[r].val))
    /\ mu' = Unlocked(r)
    /\ pc' = [pc EXCEPT ![r] = "idle"]
    /\ filePath' = [filePath EXCEPT ![r] = ""]
    /\ res' = [res EXCEPT ![r] = NoRes]
    /\ role' = [role EXCEPT ![r] = "none"]
    /\ UNCHANGED <<ctxDone, buf, off, reader, sfm, gmu>>

\* the steps of request r that take a lock, and its other steps but the fetch
LockSteps(r) == GetLock(r) \/ DoLock(r) \/ DoneLock(r) \/ SetLock(r)
FreeSteps(r) ==
    \/ GetUnlock(r) \/ DoUnlock(r) \/ DoneUnlock(r)
    \/ RespondError(r) \/ SetTooLarge(r) \/ SetUnlock(r)

NextLock ==
    \E r \in LockReqs :
        \/ Arrive(r) /\ UNCHANGED <<histVars, events>>
        \/ GetLock(r) /\ UNCHANGED <<histVars, events>>
        \/ GetUnlock(r) /\ UNCHANGED <<histVars, events>>
        \/ DoLock(r) /\ UNCHANGED <<histVars, events>>
        \/ DoUnlock(r) /\ UNCHANGED <<histVars, events>>
        \/ Fn(r) /\ UNCHANGED <<histVars, events>>
        \/ DoneLock(r) /\ UNCHANGED <<histVars, events>>
        \/ DoneUnlock(r) /\ UNCHANGED <<histVars, events>>
        \/ RespondError(r) /\ UNCHANGED <<histVars, events>>
        \/ SetTooLarge(r) /\ UNCHANGED <<histVars, events>>
        \/ SetLock(r) /\ UNCHANGED <<histVars, events>>
        \/ SetUnlock(r) /\ UNCHANGED <<histVars, events>>

SpecLock == InitServe /\ [][NextLock]_vars

\* The scheduling: a request that can go on without a lock does, a request
\* that waits for a lock gets it in the end (sync.Mutex hands a lock over to a
\* starved waiter), and a fetch of any file but A returns; a fetch of A may
\* block forever.
BlockedKey == "A"
FnReturns(r) == Fn(r) /\ filePath[r] # BlockedKey
SpecLockFair ==
    /\ SpecLock
    /\ \A r \in LockReqs :
         /\ WF_vars(FreeSteps(r) /\ UNCHANGED <<histVars, events>>)
         /\ SF_vars(LockSteps(r) /\ UNCHANGED <<histVars, events>>)
         /\ WF_vars(FnReturns(r) /\ UNCHANGED <<histVars, events>>)

\* ----------------------------------------------------------------- claims
\* A request that runs fn, the physical fetch: readHedged and its doRead.
FetchPcs == {"open1", "read1", "sleep", "read2"}
Fetching(r) == pc[r] \in FetchPcs
\* The step ends the fetch of request r.
FetchEnds(r) == Fetching(r) /\ pc'[r] = "ret"

\* C1: when the context of the request that runs the fetch is cancelled before
\* the fetch completes and another request has joined the fetch, the fetch still
\* completes: it does not end with the cancellation error, and with the storage
\* sound the request that joined receives the full payload.
C1_Detachment ==
    [][\A r \in Reqs :
         (FetchEnds(r) /\ ctxDone[r] /\ sfm[filePath[r]].waiters # {}) =>
             /\ res'[r].err # "Canceled"
             /\ \A w \in sfm[filePath[r]].waiters :
                  /\ res'[w].err \in {Nil, "IOError", "NotExist"}
                  /\ res'[w].err = Nil => res'[w].val = Files[filePath[w]]]_vars

\* C2: no two fetches of one key are in progress at any time, a request that
\* joined a call never runs the producer, and when the fetch ends every waiter
\* of the call returns from Do with the result the leader returns with.
NoTwoFetches ==
    \A r1, r2 \in Reqs :
        (r1 # r2 /\ Fetching(r1) /\ Fetching(r2)) => filePath[r1] # filePath[r2]
C2_Coalescing ==
    [][/\ NoTwoFetches /\ NoTwoFetches'
       /\ \A w \in Reqs : role[w] = "joined" => ~Fetching(w)
       /\ \A r \in Reqs :
            FetchEnds(r) =>
                \A w \in sfm[filePath[r]].waiters :
                    pc[w] = "wait" /\ pc'[w] = "ret" /\ res'[w] = res'[r]]_vars

\* Three requests of A have returned from Do with the one payload.
C2_Witness ==
    \A r \in Reqs :
        /\ pc[r] = "ret" /\ filePath[r] = "A"
        /\ res[r] = [val |-> Files["A"], err |-> Nil]
        /\ role[r] = IF r = 1 THEN "leader" ELSE "joined"

\* C3: no request receives a cancellation error caused by the context of
\* another request: a request that waited on the call of another never returns
\* from Do with the cancellation error.
C3_CancellationIsolated ==
    \A w \in Reqs : (pc[w] = "ret" /\ role[w] = "joined") => res[w].err # "Canceled"

\* C4: a key the cache holds (a fetch of it succeeded, its payload fits the
\* budget and it has not been evicted) is never being fetched again.
C4_SingleDiskRead ==
    \A r \in Reqs : Fetching(r) => filePath[r] \notin Retained(MC)
RECURSIVE SumLen(_, _)
SumLen(c, l) == IF l = <<>> THEN 0 ELSE Len(c.elems[Head(l)].Data) + SumLen(c, Tail(l))

StoredSet(o) == o.op = "Set" /\ Len(o.data) <= maxBytes
OversizeSet(o) == o.op = "Set" /\ Len(o.data) > maxBytes

\* C5 as stated: after every completed operation usedBytes <= maxBytes, for
\* every budget.
C5_UsedWithinAnyBudget == lastOp.op # "None" => usedBytes <= maxBytes

\* C5 as amended: after every completed operation usedBytes <= maxBytes when the
\* budget is not negative, and usedBytes = 0 when it is.
C5_UsedWithinBudget ==
    lastOp.op # "None" =>
        IF maxBytes >= 0 THEN usedBytes <= maxBytes ELSE usedBytes = 0

\* A third item was set into a cache that holds two: the eviction has run.
C5_Witness == scen.n = 3 /\ usedBytes = 2 * scen.size /\ usedBytes = maxBytes

\* C6 as stated: a retained entry holds the payload of the most recent Set call
\* for its key, an oversize one included: right after Set(k, d), k holds d if
\* it is retained at all.
C6_LatestSetAnySize ==
    lastOp.op = "Set" /\ lastOp.key \in Retained(MC) => DataOf(MC, lastOp.key) = lastOp.data

\* C6 as amended: every retained entry holds the payload of the most recent Set
\* call for its key whose payload did not exceed the budget. Step by step: after
\* an operation, the key of a Set that was stored holds that Set's payload, and
\* every other retained key was retained before with the payload it has now.
C6_LatestStoredSet ==
    [][\A k \in Retained(MC') :
         IF StoredSet(lastOp') /\ lastOp'.key = k
         THEN DataOf(MC', k) = lastOp'.data
         ELSE k \in Retained(MC) /\ DataOf(MC', k) = DataOf(MC, k)]_vars

\* An oversize Set on a retained key, which keeps its older payload.
C6_Witness ==
    /\ OversizeSet(lastOp)
    /\ lastOp.key \in Retained(MC)
    /\ DataOf(MC, lastOp.key) # lastOp.data

\* C7: a Set whose payload exceeds the budget leaves the whole cache unchanged:
\* index, recency list, entries and usedBytes.
C7_OversizeSetNoOp ==
    [][OversizeSet(lastOp') => UNCHANGED <<usedBytes, ll, cache, elems, maxBytes>>]_vars

\* An oversize Set has been made on a cache holding two entries.
C7_Witness == OversizeSet(lastOp) /\ Len(ll) >= 2 /\ lastOp.key \in Retained(MC)

\* C8: usedBytes is the sum of the entries' sizes, every key of the map points
\* to one list element carrying that key, every list element's key is in the
\* map and points back to it, and no element is listed twice.
C8_Accounting ==
    /\ usedBytes = SumLen(MC, ll)
    /\ \A k \in DOMAIN cache : InList(ll, cache[k]) /\ elems[cache[k]].Key = k
    /\ \A i \in 1..Len(ll) :
         /\ elems[ll[i]].Key \in DOMAIN cache
         /\ cache[elems[ll[i]].Key] = ll[i]
    /\ \A i, j \in 1..Len(ll) : ll[i] = ll[j] => i = j
    /\ Cardinality(DOMAIN cache) = Len(ll)

\* The last Set evicted and two entries remain.
C8_Witness == scen.n = 5 /\ Len(ll) = 2 /\ usedBytes = 2 * scen.size

\* C9 as stated: after Set(A), Set(B), Set(C), Get(A), Set(D) on a cache that
\* holds two items, B is evicted and A is still present.
C9_ScenarioKeepsA == scen.n = 5 => "B" \notin Retained(MC) /\ "A" \in Retained(MC)

\* C9 as amended: Set(C) evicts A, the least recently used entry by then, so
\* Get(A) misses and refreshes nothing; Set(D) evicts B; the cache ends with
\* exactly C and D.
C9_Scenario ==
    /\ scen.n = 3 => KeysOf(MC) = <<"C", "B">>
    /\ scen.n = 4 => KeysOf(MC) = <<"C", "B">> /\ "A" \notin Retained(MC)
    /\ scen.n = 5 => KeysOf(MC) = <<"D", "C">> /\ Retained(MC) = {"C", "D"}

\* The scenario has run to its end.
C9_Witness == scen.n = 5 /\ lastOp.key = "D" /\ Retained(MC) = {"C", "D"}

\* The keys an operation removed, and one step of the recency claim, for a given
\* reading of which operations are a use of their key.
Evicted == Retained(MC) \ Retained(MC')
RecencyStep(order, used) ==
    LET k == lastOp'.key
        T == IF used THEN Touch(order, k) ELSE order
    IN /\ used => Len(ll') > 0 /\ KeysOf(MC')[1] = k
       /\ \A e \in Evicted, r \in Retained(MC') \cap Retained(MC) :
            PosIn(T, e) > PosIn(T, r)
       /\ KeysOf(MC') = Restrict(T, Retained(MC'))
       /\ (lastOp'.op = "Get" /\ k \notin Retained(MC)) =>
            UNCHANGED <<usedBytes, ll, cache, elems, maxBytes>>

\* C10: a Get hit and a Set that stores (new key or existing key) make the
\* touched entry the most recently used; every entry an operation evicts was
\* last used (Get hit or stored Set) before every entry that stays; the list is
\* in the order of last use; a Get miss changes nothing.
C10_RecencyOrder ==
    [][RecencyStep(recency,
                   \/ lastOp'.op = "Get" /\ lastOp'.key \in Retained(MC)
                   \/ StoredSet(lastOp'))]_vars

\* A Get hit on the older of two entries, which is now the newer.
C10_Witness ==
    /\ lastOp.op = "Get" /\ lastOp.key \in Retained(MC)
    /\ Len(ll) >= 2 /\ KeysOf(MC)[1] = lastOp.key /\ recency = KeysOf(MC)

\* C11: after a Set(k, p) with Len(p) <= maxBytes, k is present with payload p at
\* the front of the list; what the Set evicted are other keys, the least
\* recently used ones of the list before, and no more of them than needed: the
\* last one evicted went while usedBytes was above the budget. The example, in
\* blocks: on a cache that holds only a, with a payload that does not fit
\* beside a's, Set(b, p) evicts a, keeps b, leaves usedBytes = Len(p), and a
\* Get(a) then misses.
C11_SetKeepsItsEntry ==
    [][StoredSet(lastOp') =>
         LET k == lastOp'.key
             p == lastOp'.data
             old == KeysOf(MC)
             rest == SelectSeq(old, LAMBDA x : x # k)
             kept == Len(ll') - 1
         IN /\ k \in Retained(MC') /\ DataOf(MC', k) = p
            /\ k \notin Evicted
            /\ KeysOf(MC') = <<k>> \o SubSeq(rest, 1, kept)
            /\ usedBytes' <= maxBytes
            /\ kept < Len(rest) =>
                 usedBytes' + Len(DataOf(MC, rest[kept + 1])) > maxBytes
            /\ \A a \in Keys :
                 (/\ a # k /\ old = <<a>>
                  /\ Len(DataOf(MC, a)) + Len(p) > maxBytes) =>
                     /\ Retained(MC') = {k}
                     /\ usedBytes' = Len(p)
                     /\ ~Get(MC', a).ok]_vars

\* Set(C) has just evicted A from a cache that held A and B, and C is present
\* with the payload set.
C11_Witness ==
    /\ scen.n = 3 /\ lastOp.op = "Set" /\ lastOp.key = "C"
    /\ "A" \notin Retained(MC) /\ KeysOf(MC) = <<"C", "B">>
    /\ DataOf(MC, "C") = lastOp.data

\* The fetch of a request as the history has it, the Reads left out: opens,
\* attempt ends and the delay.
Protocol(r) == SelectSeq(events[r], LAMBDA e : e[1] # "read")
Opens(r) == Len(SelectSeq(events[r], LAMBDA e : e[1] = "open"))
EndErr(e) == e[2]
EndVal(e) == e[3]

\* C12: a fetch is the guarded open and the end of the guarded attempt and, if
\* and only if that end is the too-slow abort, the hedge delay, the unguarded
\* open and the end of the second attempt, in this order and nothing more. When
\* readHedged has returned, the opens are two after an abort and one otherwise,
\* never three, and what it returned is what the last attempt ended with.
C12_HedgingProtocol ==
    \A r \in FetchReqs :
        LET p == Protocol(r) IN
        /\ Len(p) <= 5 /\ Opens(r) <= 2
        /\ Len(p) >= 1 => p[1] = EvOpen(TRUE)
        /\ Len(p) >= 2 => p[2][1] = "end"
        /\ Len(p) >= 3 => EndErr(p[2]) = "TooSlow" /\ p[3] = EvDelay
        /\ Len(p) >= 4 => p[4] = EvOpen(FALSE)
        /\ Len(p) >= 5 => p[5][1] = "end"
        /\ (pc[r] = "sleep") = (Len(p) = 2 /\ EndErr(p[2]) = "TooSlow")
        /\ (pc[r] = "ret" /\ role[r] = "leader") =>
              /\ Len(p) \in {2, 5}
              /\ Opens(r) = IF EndErr(p[2]) = "TooSlow" THEN 2 ELSE 1
              /\ res[r] = [val |-> EndVal(p[Len(p)]), err |-> EndErr(p[Len(p)])]

\* readHedged has returned the payload that the second attempt read after the
\* first was aborted.
C12_Witness ==
    /\ pc[1] = "ret" /\ Opens(1) = 2 /\ Len(Protocol(1)) = 5
    /\ res[1] = [val |-> Files[filePath[1]], err |-> Nil]

\* C13: when the guarded attempt ends with an error that is not the too-slow
\* abort (the open failed, a Read failed, the context was cancelled), readHedged
\* has returned that error at once: the history of the fetch ends there, with
\* one open, no delay and no second open.
C13_NoHedgeOnOtherErrors ==
    \A r \in FetchReqs :
        LET p == Protocol(r) IN
        (Len(p) >= 2 /\ EndErr(p[2]) \notin {Nil, "TooSlow"}) =>
            /\ Len(p) = 2 /\ Opens(r) = 1
            /\ pc[r] = "ret"
            /\ res[r] = [val |-> <<>>, err |-> EndErr(p[2])]

\* The guarded attempt has read a block and then failed on the storage; the
\* request holds the I/O error after one open.
C13_Witness ==
    /\ pc[1] = "ret" /\ res[1].err = "IOError" /\ Opens(1) = 1
    /\ \E i \in 1..Len(events[1]) :
         events[1][i][1] = "read" /\ events[1][i][4] > 0

\* C14: readHedged never returns the too-slow abort, so no request holds it
\* after sfGroup.Do; and when a fetch ends, every request waiting on the call
\* returns from Do with what the last attempt of the fetch ended with, error or
\* payload, unchanged.
C14_TooSlowAbsorbed ==
    [][/\ \A r \in FetchReqs : pc'[r] = "ret" => res'[r].err # "TooSlow"
       /\ \A r \in FetchReqs :
            FetchEnds(r) =>
                LET p == SelectSeq(events'[r], LAMBDA e : e[1] # "read")
                    last == p[Len(p)]
                IN \A w \in {r} \cup sfm[filePath[r]].waiters :
                     /\ pc'[w] = "ret"
                     /\ res'[w] = [val |-> EndVal(last), err |-> EndErr(last)]]_vars

\* The first attempt was aborted as too slow and the second failed on the
\* storage: the request that joined holds the I/O error.
C14_Witness ==
    /\ pc[1] = "ret" /\ pc[2] = "ret" /\ role[2] = "joined"
    /\ Opens(1) = 2 /\ EndErr(Protocol(1)[2]) = "TooSlow"
    /\ res[1].err = "IOError" /\ res[2] = res[1]

\* The step is the rest of ServeHTTP for request r, after sfGroup.Do.
Responds(r) == pc[r] = "ret" /\ pc'[r] = "idle"

\* C15: the end of a fetch with an error, and the answer of every request that
\* holds an error, leave the whole cache as it was; the entries of the cache
\* change only in the answer of a request that holds a payload, by the Set of
\* that payload under its key; and an error is remembered nowhere: the call has
\* left the group when the fetch ends, and a request that then comes to
\* sfGroup.Do for the key runs a fetch of its own.
C15_ErrorsNotCached ==
    [][/\ \A r \in Reqs :
            (FetchEnds(r) /\ res'[r].err # Nil) =>
                /\ UNCHANGED cacheVars
                /\ filePath[r] \notin DOMAIN sfm'
                /\ \A w \in sfm[filePath[r]].waiters : res'[w].err = res'[r].err
       /\ \A r \in Reqs :
            (Responds(r) /\ res[r].err # Nil) => UNCHANGED cacheVars
       /\ <<usedBytes, cache, elems>>' # <<usedBytes, cache, elems>> =>
            \E r \in Reqs :
                /\ Responds(r) /\ res[r].err = Nil
                /\ MC' = Set(MC, filePath[r], res[r].val)
       /\ \A r \in Reqs :
            (pc[r] = "do" /\ pc'[r] # "do" /\ filePath[r] \notin DOMAIN sfm) =>
                pc'[r] = "open1" /\ role'[r] = "leader"]_vars

\* A fetch of A has failed and its request still holds the error; A is not in
\* the cache, and a later request runs a fetch of A of its own.
C15_Witness ==
    /\ pc[1] = "ret" /\ res[1].err = "IOError" /\ filePath[1] = "A"
    /\ "A" \notin Retained(MC)
    /\ filePath[2] = "A" /\ role[2] = "leader" /\ pc[2] = "read1" /\ Len(buf[2]) > 0

\* A request inside a critical section of the cache, of the group.
InCache(r) == pc[r] \in {"inGet", "inSet"}
InGroup(r) == pc[r] \in {"inDo", "inDone"}

\* C16: the lock of the cache is held only by a request inside Get or Set and
\* the mutex of the group only by a request inside the table part of Do: never
\* by a request whose fetch (physical reads, hedge delay) is running, that
\* waits for a call, or that is inside the other component; a request waits
\* only for a call of its own key; and a request for a key other than the one
\* whose fetch may block forever always completes.
LockDiscipline ==
    /\ mu # 0 => InCache(mu)
    /\ gmu # 0 => InGroup(gmu)
    /\ \A r \in LockReqs :
         /\ InCache(r) => mu = r /\ gmu # r
         /\ InGroup(r) => gmu = r /\ mu # r
         /\ pc[r] \in {"fn", "fnret", "wait", "do", "get", "ret", "idle"} =>
              mu # r /\ gmu # r
         /\ pc[r] = "wait" =>
              /\ filePath[r] \in DOMAIN sfm
              /\ r \in sfm[filePath[r]].waiters
              /\ filePath[sfm[filePath[r]].leader] = filePath[r]
              /\ pc[sfm[filePath[r]].leader] \in {"fn", "fnret", "inDone"}
C16_KeyIndependence ==
    /\ []LockDiscipline
    /\ \A r \in LockReqs :
         (pc[r] # "idle" /\ filePath[r] # BlockedKey) ~> (pc[r] = "idle")

\* The fetch of A is running, and a request for B that came after it is about
\* to cache the payload of B.
C16_Witness ==
    /\ pc[1] = "fn" /\ filePath[1] = BlockedKey
    /\ pc[2] = "inSet" /\ filePath[2] = "B" /\ res[2].val = Files["B"]

\* C17 as stated: reads do not block other reads: while a Get is inside the
\* critical section of the cache, another request that has called Get can
\* enter it too.
C17_ReadsDoNotBlockReads ==
    \A r1, r2 \in LockReqs :
        (pc[r1] = "inGet" /\ pc[r2] = "get") => ENABLED GetLock(r2)

\* C17 as amended: every operation of the cache, a Get that hits or misses
\* included, holds the lock exclusively: at most one request is inside Get or
\* Set at any time, it is the holder of the lock, a request that has called Get
\* while another is inside Get or Set cannot enter, and the cache they share
\* stays consistent.
C17_MutualExclusion ==
    /\ \A r1, r2 \in LockReqs : (InCache(r1) /\ InCache(r2)) => r1 = r2
    /\ \A r \in LockReqs : InCache(r) => mu = r
    /\ \A r1, r2 \in LockReqs :
         (InCache(r1) /\ pc[r2] = "get") => ~ENABLED GetLock(r2)
    /\ C8_Accounting

\* A Get that will hit is inside the critical section, and a second request
\* has called Get for the same key and waits for the lock.
C17_Witness ==
    /\ pc[1] = "inGet" /\ filePath[1] \in Retained(MC)
    /\ pc[2] = "get" /\ filePath[2] = filePath[1]

\* The Reads of the guarded attempt of request r, through its HedgingReader:
\* each with the error it returned, the time since the start of the session
\* and the bytes read in the session after it.
Reads(r) == SelectSeq(events[r], LAMBDA e : e[1] = "read")
ReadErr(e) == e[2]
ReadElapsed(e) == e[3]
ReadBytes(e) == e[4]

\* C18: in a session whose first Read past the measurement window passed the
\* check, no later Read returns the too-slow abort.
C18_PassedOnceNeverAborts ==
    \A r \in FetchReqs :
        LET R == Reads(r) IN
        \A i, j \in 1..Len(R) :
            (/\ i < j
             /\ ReadElapsed(R[i]) >= CheckTime /\ ReadErr(R[i]) # "TooSlow"
             /\ \A h \in 1..(i - 1) : ReadElapsed(R[h]) < CheckTime) =>
                ReadErr(R[j]) # "TooSlow"

C20_NoPartialPayload ==
    /\ \A r \in FetchReqs :
         /\ pc[r] = "ret" =>
              res[r].val = IF res[r].err = Nil THEN Files[filePath[r]] ELSE <<>>
         /\ pc[r] \in {"read1", "read2"} =>
              buf[r] = SubSeq(Files[filePath[r]], 1, off[r])
         /\ pc[r] \in {"sleep", "open1"} => buf[r] = <<>>
    /\ \A k \in Retained(MC) : Exists(k) /\ DataOf(MC, k) = Files[k]

\* The guarded attempt had read a block of A when it was aborted; the second
\* attempt read A whole, and A is in the cache with that payload.
C20_Witness ==
    /\ pc[2] = "ret" /\ filePath[2] = "A" /\ Opens(2) = 2
    /\ \E i \in 1..Len(Reads(2)) :
         ReadErr(Reads(2)[i]) = "TooSlow" /\ ReadBytes(Reads(2)[i]) = 1
    /\ res[2] = [val |-> Files["A"], err |-> Nil]
    /\ "B" \in Retained(MC) /\ DataOf(MC, "B") = Files["B"]

=============================================================================
